---- MODULE Spec2Model ----
(***************************************************************************)
(* Model of 08_BernTwoMetropolis.py: a Metropolis random walk over         *)
(* theta = [theta1, theta2] on [0,1]x[0,1], followed by the inferences     *)
(* drawn from the post-burn-in sample.                                     *)
(*                                                                         *)
(* Numbers.  A coordinate is an integer i that stands for i/G, so the      *)
(* domain [0,1] is 0..G.  A density is an exact integer numerator over a   *)
(* fixed positive denominator: likelihood over G^(N1+N2), and beta.pdf     *)
(* over B(a,b)*G^(a+b-2).  Ratios and comparisons of densities are then    *)
(* exact.  A uniform draw is k/UDen with k in 0..UDen-1, i.e. in [0,1).    *)
(***************************************************************************)
EXTENDS Integers, Sequences, FiniteSets, TLC

\* ---- bounds of the model ----
G == 4
MaxLen == 3
MaxJump == 2
UDen == 2
MaxExecutions == 2

\* ---- program constants ----
z1 == 5
N1 == 7
z2 == 2
N2 == 7
a1 == 3
b1 == 3
a2 == 3
b2 == 3
BurnDen == 10
CredDen == 20
PctDen == 100

VARIABLES
    pc,            \* "setup", "loop", "summary", "done", "error"
    raised,        \* the exception that ended the script, "" when none
    traj_length,   \* configured length of the trajectory
    start,         \* configured starting point
    burn_frac,     \* configured burn-in fraction, as numerator over BurnDen
    trajectory,    \* function 0..traj_length-1 -> point
    burn_in,
    n_accepted,
    n_rejected,
    step,          \* index of the next iteration of the loop
    gen,           \* generator state: <<seeded, number of draws consumed>>
    tape,          \* draws the seeded stream has produced so far
    execution,     \* how many times the script has been started
    counts,        \* <<n_accepted, n_rejected>> after each iteration so far
    prev,          \* the sampler's outputs of the previous execution
    mean_traj,     \* <<sum of theta1, sum of theta2>> over Len(accepted_traj)
    accepted_traj, \* sequence: trajectory[burn_in:]
    post_prob,     \* sequence of target densities of accepted_traj
    evid_div,      \* sequence of divisors likelihood*prior of wtd_evid
    credmass,      \* numerator over CredDen
    waterline,     \* <<whole, num>>: whole + num/(PctDen*CredDen)
    HDI_points     \* sequence of points

vars == <<pc, raised, traj_length, start, burn_frac, trajectory, burn_in,
          n_accepted, n_rejected, step, gen, tape, execution, counts, prev,
          mean_traj, accepted_traj, post_prob, evid_div, credmass, waterline,
          HDI_points>>

config == <<traj_length, start, burn_frac>>
sampler == <<trajectory, burn_in, n_accepted, n_rejected, step, counts>>
summary == <<mean_traj, accepted_traj, post_prob, evid_div, credmass,
             waterline, HDI_points>>

\* ---- arithmetic helpers ----
RECURSIVE Pow(_, _)
Pow(x, n) == IF n = 0 THEN 1 ELSE x * Pow(x, n - 1)

\* a*b < c*d for naturals, without forming the products
RECURSIVE FracLess(_, _, _, _)
FracLess(a, d, c, b) ==
    \* a/d < c/b, with b > 0 and d > 0
    LET q1 == a \div d
        q2 == c \div b
        r1 == a % d
        r2 == c % b
    IN  IF q1 # q2 THEN q1 < q2
        ELSE IF r2 = 0 THEN FALSE
        ELSE IF r1 = 0 THEN TRUE
        ELSE FracLess(b, r2, d, r1)

ProdLess(a, b, c, d) ==
    IF c = 0 \/ d = 0 THEN FALSE
    ELSE IF a = 0 \/ b = 0 THEN TRUE
    ELSE FracLess(a, d, c, b)

\* ---- the target density ----
InDomain(theta) ==
    /\ theta[1] >= 0 /\ theta[2] >= 0
    /\ theta[1] <= G /\ theta[2] <= G

likelihood(theta) ==
    Pow(theta[1], z1) * Pow(G - theta[1], N1 - z1)
        * Pow(theta[2], z2) * Pow(G - theta[2], N2 - z2)

beta_pdf(x, a, b) ==
    IF x >= 0 /\ x <= G THEN Pow(x, a - 1) * Pow(G - x, b - 1) ELSE 0

prior(theta) == beta_pdf(theta[1], a1, b1) * beta_pdf(theta[2], a2, b2)

target_rel_prob(theta) ==
    IF InDomain(theta) THEN likelihood(theta) * prior(theta) ELSE 0

\* target_rel_prob tabulated once over the points a walk can propose
Points == (-(MaxJump + 1)..(G + MaxJump + 1)) \X (-(MaxJump + 1)..(G + MaxJump + 1))
target_table == [theta \in Points |-> target_rel_prob(theta)]
density(theta) ==
    IF theta \in Points THEN target_table[theta] ELSE target_rel_prob(theta)

\* ---- the acceptance probability (lines 72-76) ----
\* The quotient target_rel_prob(proposed) / target_rel_prob(current).
\* target_rel_prob returns a numpy float64 inside the domain and the Python
\* float 0.0 outside it: a zero divisor gives inf or nan (with a warning)
\* when an operand is a float64, and ZeroDivisionError when both are Python
\* floats.
Divide(proposed, current) ==
    LET p == density(proposed)
        c == density(current)
    IN  IF c # 0 THEN [kind |-> "num", p |-> p, c |-> c]
        ELSE IF ~InDomain(proposed) /\ ~InDomain(current)
             THEN [kind |-> "raise", p |-> 0, c |-> 0]
        ELSE IF p > 0 THEN [kind |-> "inf", p |-> 1, c |-> 0]
        ELSE [kind |-> "nan", p |-> 0, c |-> 0]

One == [kind |-> "num", p |-> 1, c |-> 1]

np_maximum_one(r) ==
    IF r.kind = "nan" THEN r
    ELSE IF r.kind = "inf" \/ r.p >= r.c THEN r ELSE One

np_minimum_one(r) ==
    IF r.kind = "nan" THEN r
    ELSE IF r.kind = "inf" \/ r.p >= r.c THEN One ELSE r

prob_accept(current, jump) ==
    np_minimum_one(Divide(<<current[1] + jump[1], current[2] + jump[2]>>, current))

\* k/UDen <= r
rand_less_or_equal(k, r) ==
    /\ r.kind # "nan"
    /\ r.kind = "inf" \/ ~ProdLess(UDen, r.p, k, r.c)

\* np.random.rand() < r, the draw being k/UDen
rand_less(k, r) ==
    /\ r.kind # "nan"
    /\ r.kind = "inf" \/ ProdLess(k, r.c, UDen, r.p)

Raises(current, jump) ==
    Divide(<<current[1] + jump[1], current[2] + jump[2]>>, current).kind = "raise"

\* ---- configuration ----
Jumps == (-MaxJump..MaxJump) \X (-MaxJump..MaxJump)
Uniforms == 0..(UDen - 1)
Lengths == 0..MaxLen
BurnFracs == {0, 1, 9}
Starts == { <<G \div 2, G \div 2>>, <<G - 1, 1>>,
            <<0, G \div 2>>, <<-1, G \div 2>> }
CredMasses == {-10, 19, 30}

Ceil(n, d) == (n + d - 1) \div d
Floor(n, d) == n \div d

burn_in_floor(frac, len) == Floor(frac * len, BurnDen)

\* np.ceil(fraction * traj_length), line 53
burn_in_of(frac, len) == Ceil(frac * len, BurnDen)

zeros(len) == [i \in 0..(len - 1) |-> <<0, 0>>]

np_random_seed_omitted == <<FALSE, 0>>

np_random_seed == <<TRUE, 0>>

Unset == <<>>

InitWith(L, S, F) ==
    /\ pc = "setup"
    /\ raised = ""
    /\ traj_length \in L
    /\ start \in S
    /\ burn_frac \in F
    /\ trajectory = Unset
    /\ burn_in = 0
    /\ n_accepted = 0
    /\ n_rejected = 0
    /\ step = 0
    /\ gen = <<FALSE, 0>>
    /\ tape = <<>>
    /\ execution = 1
    /\ counts = <<>>
    /\ prev = Unset
    /\ mean_traj = Unset
    /\ accepted_traj = <<>>
    /\ post_prob = <<>>
    /\ evid_div = <<>>
    /\ credmass = 0
    /\ waterline = Unset
    /\ HDI_points = <<>>

Init == InitWith(Lengths, Starts, BurnFracs)

\* lines 46-61
Setup ==
    /\ pc = "setup"
    /\ IF traj_length < 1
       THEN \* trajectory[0, ] on an array without rows
            /\ pc' = "error"
            /\ raised' = "IndexError"
            /\ trajectory' = zeros(traj_length)
            /\ UNCHANGED <<burn_in, gen>>
       ELSE /\ trajectory' = [zeros(traj_length) EXCEPT ![0] = start]
            /\ burn_in' = burn_in_of(burn_frac, traj_length)
            /\ gen' = np_random_seed
            /\ pc' = IF traj_length - 1 > 0 THEN "loop" ELSE "summary"
            /\ raised' = ""
    /\ n_accepted' = 0
    /\ n_rejected' = 0
    /\ step' = 0
    /\ counts' = <<>>
    /\ UNCHANGED <<config, tape, execution, prev, summary>>

CountedInclusive(s, b) == s >= b

\* the steps the counters monitor (lines 80, 86)
Counted(s, b) == s > b

same_index(s) == s

\* the row an iteration writes (lines 78, 84)
written_index(s) == s + 1

\* One iteration of the loop (lines 64-87) with the draws jump and k/UDen.
StepWith(jump, k) ==
    LET current_position == trajectory[step]
        proposed == <<current_position[1] + jump[1], current_position[2] + jump[2]>>
    IN  IF Raises(current_position, jump)
        THEN /\ pc' = "error"
             /\ raised' = "ZeroDivisionError"
             /\ gen' = <<gen[1], gen[2] + 1>>
             /\ UNCHANGED sampler
        ELSE LET accept == rand_less(k, prob_accept(current_position, jump))
                 acc == IF accept /\ Counted(step, burn_in)
                        THEN n_accepted + 1 ELSE n_accepted
                 rej == IF ~accept /\ Counted(step, burn_in)
                        THEN n_rejected + 1 ELSE n_rejected
             IN  /\ trajectory' = [trajectory EXCEPT ![written_index(step)] =
                                      IF accept THEN proposed ELSE current_position]
                 /\ n_accepted' = acc
                 /\ n_rejected' = rej
                 /\ counts' = Append(counts, <<acc, rej>>)
                 /\ step' = step + 1
                 /\ gen' = <<gen[1], gen[2] + 2>>
                 /\ pc' = IF step + 1 < traj_length - 1 THEN "loop" ELSE "summary"
                 /\ UNCHANGED <<raised, burn_in>>

Step ==
    /\ pc = "loop"
    /\ \E jump \in Jumps, k \in Uniforms : StepWith(jump, k)
    /\ UNCHANGED <<config, tape, execution, prev, summary>>

\* ---- inferences from the sample (lines 91-149) ----
Slice(len, b) == [i \in 1..(IF len > b THEN len - b ELSE 0) |-> trajectory[b + i - 1]]

RECURSIVE SeqSum(_, _)
SeqSum(s, d) == IF s = <<>> THEN 0 ELSE Head(s)[d] + SeqSum(Tail(s), d)

np_mean(s) == <<SeqSum(s, 1), SeqSum(s, 2)>>

unsorted(a) == a

np_sort(a) == SortSeq(a, LAMBDA x, y : x < y)

\* np.percentile(a, q) for q = c/CredDen percent, linear interpolation between
\* the order statistics around the index q/100 * (n-1); the result is the
\* exact mixed number <<whole, num>> = whole + num/(PctDen*CredDen).
np_percentile(a, c) ==
    LET n == Len(a)
        s == np_sort(a)
        den == PctDen * CredDen
        v == c * (n - 1)
        k == v \div den
        r == v % den
        lo == s[k + 1]
        hi == IF k + 2 <= n THEN s[k + 2] ELSE lo
        d == hi - lo
        qd == d \div den
        rd == d % den
    IN  <<lo + r * qd + ((r * rd) \div den), (r * rd) % den>>

\* p > w for an integer p and a mixed number w
Above(p, w) == p > w[1]

WaterLE(w1, w2) == w1[1] < w2[1] \/ (w1[1] = w2[1] /\ w1[2] <= w2[2])

Mask(points, probs, w) ==
    SelectSeq([i \in 1..Len(points) |-> <<points[i], probs[i]>>],
              LAMBDA e : Above(e[2], w))

hdi_points(points, probs, c) ==
    LET m == Mask(points, probs, np_percentile(probs, c))
    IN  [i \in 1..Len(m) |-> m[i][1]]

Summarize ==
    /\ pc = "summary"
    /\ LET acc == Slice(traj_length, burn_in)
           npts == Len(acc)
           probs == [i \in 1..npts |-> target_rel_prob(acc[i])]
       IN  /\ accepted_traj' = acc
           /\ mean_traj' = np_mean(acc)
           /\ IF npts = 0
              THEN \* n_accepted / len(accepted_traj), line 113
                   /\ pc' = "error"
                   /\ raised' = "ZeroDivisionError"
                   /\ UNCHANGED <<evid_div, post_prob, credmass, waterline, HDI_points>>
              ELSE /\ evid_div' = [i \in 1..npts |-> likelihood(acc[i]) * prior(acc[i])]
                   /\ post_prob' = probs
                   /\ \E c \in CredMasses :
                        /\ credmass' = c
                        /\ IF c < 0 \/ c > PctDen * CredDen
                           THEN \* np.percentile rejects q outside [0, 100]
                                /\ pc' = "error"
                                /\ raised' = "ValueError"
                                /\ UNCHANGED <<waterline, HDI_points>>
                           ELSE /\ waterline' = np_percentile(probs, c)
                                /\ HDI_points' = hdi_points(acc, probs, c)
                                /\ pc' = "done"
                                /\ UNCHANGED raised
    /\ UNCHANGED <<config, sampler, gen, tape, execution, prev>>

Next == Setup \/ Step \/ Summarize

Spec == Init /\ [][Next]_vars

\* ---- the seeded generator ----
\* The stream selected by np.random.seed(47405) is one fixed sequence of
\* draws.  tape holds the part of it drawn so far: a seeded generator at a
\* position inside the tape returns what the tape holds, and past its end
\* returns a new value that the tape then keeps.  An unseeded generator
\* follows no tape.
Drawn(kind, val, pos, t) ==
    (gen[1] /\ pos <= Len(t)) => t[pos] = <<kind, val>>

Extend(t, kind, val, pos) ==
    IF gen[1] /\ pos = Len(t) + 1 THEN Append(t, <<kind, val>>) ELSE t

StepSeeded ==
    /\ pc = "loop"
    /\ \E jump \in Jumps, k \in Uniforms :
         LET t1 == Extend(tape, "multivariate_normal", jump, gen[2] + 1)
         IN  /\ Drawn("multivariate_normal", jump, gen[2] + 1, tape)
             /\ IF Raises(trajectory[step], jump)
                THEN tape' = t1
                ELSE /\ Drawn("rand", k, gen[2] + 2, t1)
                     /\ tape' = Extend(t1, "rand", k, gen[2] + 2)
             /\ StepWith(jump, k)
    /\ UNCHANGED <<config, execution, prev, summary>>

\* The script is started again with the same configuration.
Restart ==
    /\ pc \in {"done", "error"}
    /\ execution < MaxExecutions
    /\ execution' = execution + 1
    /\ prev' = [trajectory |-> trajectory, counts |-> counts, step |-> step,
                n_accepted |-> n_accepted, n_rejected |-> n_rejected]
    /\ pc' = "setup"
    /\ raised' = ""
    /\ trajectory' = Unset
    /\ burn_in' = 0
    /\ n_accepted' = 0
    /\ n_rejected' = 0
    /\ step' = 0
    /\ counts' = <<>>
    /\ gen' = <<FALSE, 0>>
    /\ mean_traj' = Unset
    /\ accepted_traj' = <<>>
    /\ post_prob' = <<>>
    /\ evid_div' = <<>>
    /\ credmass' = 0
    /\ waterline' = Unset
    /\ HDI_points' = <<>>
    /\ UNCHANGED <<config, tape>>

SeededStarts == { <<G \div 2, G \div 2>>, <<-1, G \div 2>> }
SeededFracs == {0, 1}

InitSeeded == InitWith(1..MaxLen, SeededStarts, SeededFracs)

NextSeeded == Setup \/ StepSeeded \/ Summarize \/ Restart

SpecSeeded == InitSeeded /\ [][NextSeeded]_vars

\* ---- properties ----
Max(a, b) == IF a >= b THEN a ELSE b
Plus(theta, jump) == <<theta[1] + jump[1], theta[2] + jump[2]>>

ValidStart == InDomain(start) /\ target_rel_prob(start) > 0
Started == pc # "setup" /\ traj_length >= 1
LoopFinished == Started /\ step = traj_length - 1

\* C1 as stated: when the loop has finished, n_accepted + n_rejected equals
\* max(0, trajectory_length - 1 - burn_in).
C1_AcceptanceBoundAsStated ==
    LoopFinished =>
        n_accepted + n_rejected = Max(0, traj_length - 1 - burn_in)

\* C1 amended: when the loop has finished, n_accepted + n_rejected equals
\* max(0, trajectory_length - 2 - burn_in): the counted steps are those with
\* burn_in < step <= trajectory_length - 2.
C1_AcceptanceBound ==
    LoopFinished =>
        n_accepted + n_rejected = Max(0, traj_length - 2 - burn_in)

C1_Witness ==
    /\ LoopFinished
    /\ n_accepted + n_rejected >= 1
    /\ traj_length - 1 - burn_in > n_accepted + n_rejected

\* C2: from a start inside the domain with positive density, every point
\* written to the trajectory has both coordinates in [0,1], and a proposal
\* that leaves the domain from the current point has acceptance probability
\* 0 and is accepted by no uniform draw.
C2_DomainContainment ==
    (Started /\ ValidStart) =>
        /\ \A i \in 0..step : InDomain(trajectory[i])
        /\ pc = "loop" =>
              \A jump \in Jumps :
                 ~InDomain(Plus(trajectory[step], jump)) =>
                    LET r == prob_accept(trajectory[step], jump)
                    IN  /\ r.kind = "num" /\ r.p = 0
                        /\ \A k \in Uniforms : ~rand_less(k, r)

C2_Witness ==
    /\ Started /\ ValidStart
    /\ step >= 2
    /\ trajectory[1] # start
    /\ trajectory[2] = trajectory[1]
    /\ \E jump \in Jumps : ~InDomain(Plus(trajectory[1], jump))

\* C3 as stated: a step whose current position has target density 0 rejects
\* without an exception: the next entry equals the current position.
C3_ZeroDensityRejects ==
    [][(pc = "loop" /\ target_rel_prob(trajectory[step]) = 0) =>
          (pc' # "error" /\ trajectory'[step + 1] = trajectory[step])]_vars

\* C4 as stated: a malformed configuration is surfaced before the first
\* sampling step: the loop is never entered with it, and a credibility mass
\* outside (0,1) never yields a result.
ValidConfig == traj_length >= 1 /\ ValidStart
C4_MalformedConfigurationRejected ==
    /\ ~ValidConfig => (pc \in {"setup", "error"} /\ step = 0)
    /\ pc = "done" => (credmass > 0 /\ credmass < CredDen)

\* C5 as stated: for a positive length and a fraction in [0,1), the burn-in
\* boundary satisfies 0 <= burn_in < trajectory_length and the slice
\* trajectory[burn_in:] is not empty.
C5_BurnInBelowLengthAsStated ==
    Started =>
        /\ 0 <= burn_in /\ burn_in < traj_length
        /\ Len(Slice(traj_length, burn_in)) > 0

\* C5 amended: burn_in is the ceiling of fraction * length and satisfies
\* 0 <= burn_in <= trajectory_length; the slice trajectory[burn_in:] holds
\* trajectory_length - burn_in points and is empty exactly when
\* fraction * length > length - 1.
C5_BurnInBoundary ==
    Started =>
        /\ 0 <= burn_in /\ burn_in <= traj_length
        /\ burn_in * BurnDen >= burn_frac * traj_length
        /\ (burn_in - 1) * BurnDen < burn_frac * traj_length
        /\ Len(Slice(traj_length, burn_in)) = traj_length - burn_in
        /\ (Slice(traj_length, burn_in) = <<>>)
              <=> (burn_frac * traj_length > BurnDen * (traj_length - 1))
        /\ pc = "done" => accepted_traj = Slice(traj_length, burn_in)

C5_Witness ==
    /\ pc = "error" /\ raised = "ZeroDivisionError"
    /\ step = traj_length - 1
    /\ burn_in = traj_length
    /\ burn_frac > 0
    /\ accepted_traj = <<>>

\* C6: a second execution with the same seed and configuration repeats the
\* first: at every step its trajectory and counters equal those of the first
\* execution, it ends where the first ended, and the stream is consumed as
\* proposal vector, uniform draw, proposal vector, uniform draw, ...
C6_SeedDeterminism ==
    /\ \A p \in 1..Len(tape) :
          tape[p][1] = IF p % 2 = 1 THEN "multivariate_normal" ELSE "rand"
    /\ (execution >= 2 /\ Started) =>
          /\ step <= prev.step
          /\ \A i \in 0..step : trajectory[i] = prev.trajectory[i]
          /\ counts = SubSeq(prev.counts, 1, step)
          /\ pc \in {"summary", "done", "error"} =>
                /\ step = prev.step
                /\ trajectory = prev.trajectory
                /\ n_accepted = prev.n_accepted
                /\ n_rejected = prev.n_rejected

C6_Witness ==
    /\ execution = 2
    /\ pc = "done"
    /\ step >= 2
    /\ trajectory[1] # trajectory[0]
    /\ trajectory[2] = trajectory[1]
    /\ n_accepted + n_rejected >= 1

\* C7: for the post-burn-in sample, a larger credmass gives a waterline that
\* is no lower and a set of points above it that is no larger.
CredGrid == {1, 10, 19} \cup {CredDen * q : q \in {25, 50, 75, 100}}
C8_EveryStepWritesOneEntry ==
    [][pc = "loop" =>
          \E jump \in Jumps, k \in Uniforms :
             /\ step' = step + 1
             /\ trajectory' = [trajectory EXCEPT ![step + 1] =
                   IF rand_less(k, prob_accept(trajectory[step], jump))
                   THEN Plus(trajectory[step], jump)
                   ELSE trajectory[step]]]_vars

\* C9: the trajectory is append-only: it has the configured length from the
\* start, index 0 holds the start state, an iteration changes no entry other
\* than index step+1, no later action changes any entry, and the finished
\* trajectory has every index up to length-1 written.
C9_AppendOnly ==
    /\ [](Started =>
            /\ DOMAIN trajectory = 0..(traj_length - 1)
            /\ trajectory[0] = start
            /\ step <= traj_length - 1
            /\ pc \in {"summary", "done"} => step = traj_length - 1)
    /\ [][Started =>
            /\ \A i \in 0..(traj_length - 1) :
                  (i # step + 1 \/ pc # "loop") => trajectory'[i] = trajectory[i]
            /\ step' \in {step, step + 1}
            /\ step' = step + 1 => pc = "loop"]_vars

C9_Witness ==
    /\ pc = "done"
    /\ step >= 2
    /\ trajectory[1] # trajectory[0]
    /\ trajectory[2] # trajectory[1]
    /\ trajectory[0] = start

\* C10: from a start with positive density, every point written to the
\* trajectory has positive target density, so the divisor of the acceptance
\* ratio is not 0 at any step, and no divisor likelihood * prior of the
\* evidence weights is 0.
C10_PositiveDensity ==
    (Started /\ ValidStart) =>
        /\ \A i \in 0..step : target_rel_prob(trajectory[i]) > 0
        /\ \A i \in 1..Len(evid_div) : evid_div[i] # 0
        /\ pc = "done" => Len(evid_div) = Len(accepted_traj)

C10_Witness ==
    /\ pc = "done" /\ ValidStart
    /\ Len(evid_div) >= 2
    /\ trajectory[step] # start
    /\ \E jump \in Jumps :
          /\ InDomain(Plus(trajectory[step], jump))
          /\ target_rel_prob(Plus(trajectory[step], jump)) = 0

====
